---- MODULE Spec2Model ----
(***************************************************************************)
(* A state-machine model of BaconScore.c: parseFile builds the actor/movie *)
(* graph line by line, main answers a stream of queries with BFS.          *)
(*                                                                         *)
(* Pointers are indices: an actorNode is its position in headActors (the   *)
(* list is append-only, so the position is the node's identity), a         *)
(* movieNode is its position in movieNodes (the malloc'ed movie nodes, in  *)
(* allocation order); NULL is 0.  Strings are tuples of one-character      *)
(* strings.                                                                *)
(***************************************************************************)
EXTENDS Integers, Sequences, FiniteSets, TLC

\* ---------------------------------------------------------------- bounds
\* Number of dataset lines read by parseFile before end of file.
MaxLines == 6
\* Number of query lines read by main before end of stdin.
MaxQueries == 2
\* Number of lines of a dataset made of movie headers only.
MaxHeaders == 2
\* Length of such a header line, newline not counted.
MaxHeaderLen == 3
\* Lines of a dataset of up to five actors (specification SpecWide).
MaxWideLines == 9

\* ------------------------------------------------------------- constants
NULL == 0

\* The name main() looks up as the anchor ("Kevin Bacon", abbreviated).
KevinBacon == <<"K">>

\* The two initial values parseFile gives a new actorNode.
NewVisited == 0
NewLevel == 0

\* ----------------------------------------------------------------- input
\* Dataset lines as getline() returns them.
FileLines ==
  { <<"\n">>,                      \* empty line
    <<" ", "a", "\n">>,            \* line starting with white space
    <<"M", ":", " ", "X", "\n">>,  \* movie header
    <<"K", "\n">>, <<"a", "\n">>, <<"b", "\n">>,
    <<"b">> }                      \* last line of a file without newline

\* Query lines as getline() returns them from stdin.
QueryLines == { <<"K", "\n">>, <<"a", "\n">>, <<"b", "\n">>, <<"b">> }

\* Dataset and query lines over five actor names.
WideNames == { "K", "a", "b", "c", "d" }

WideHeader == <<"M", ":", " ", "X", "\n">>

WideLines == { WideHeader } \cup { <<n, "\n">> : n \in WideNames }

WideQueryLines == { <<n, "\n">> : n \in WideNames }

\* A family of datasets of five actors in up to three movies: the lines
\* a dataset of the family may have as its n-th line.
WideLinesAt(n) ==
  CASE n = 1 -> { WideHeader }
    [] n = 2 -> { <<"K", "\n">>, <<"a", "\n">> }
    [] n = 3 -> { <<"K", "\n">>, <<"a", "\n">>, <<"b", "\n">> }
    [] n = 4 -> { <<"a", "\n">>, <<"b", "\n">>, WideHeader }
    [] n = 5 -> { WideHeader, <<"b", "\n">>, <<"c", "\n">> }
    [] n = 6 -> { <<"a", "\n">>, <<"b", "\n">>, <<"c", "\n">> }
    [] n = 7 -> { <<"c", "\n">>, WideHeader, <<"K", "\n">> }
    [] n = 8 -> { WideHeader, <<"c", "\n">>, <<"d", "\n">> }
    [] n = 9 -> { <<"c", "\n">>, <<"d", "\n">>, <<"K", "\n">> }
    [] OTHER -> { WideHeader, <<"d", "\n">> }

\* The characters header-only datasets are made of.
HeaderAlphabet == { "M", ":", " " }

\* The names tried in the place of main's literal, to call BFS from any actor.
AnchorNames == { <<"K">>, <<"a">>, <<"b">> }

VARIABLES
  headActors,  \* list of actorNode: [actorName, movies, visited, level]
  movieNodes,  \* allocated movieNode: [movieName, actors]
  headMovies,  \* list of registered movies (indices into movieNodes)
  movie,       \* parseFile: current movie (index or NULL)
  movieTitle,  \* parseFile: <<>> for NULL, <<title>> otherwise
  nlines,      \* number of dataset lines read
  line,        \* parseFile: the line getline() returned last, <<>> once freed
  pc,          \* "parse", "query", "bfs", "done", "crashed", "undefined"
  asked,       \* queries read so far: [anchor, name]
  out,         \* lines written to stdout/stderr
  errSeen,     \* main: exit status flag
  start,       \* BFS: start actor (index)
  target,      \* BFS: target actor (index)
  q,           \* BFS: work queue (actor indices)
  bfsCalls,    \* number of calls of BFS so far
  dequeued     \* BFS: the actors dequeue() returned in the current call

vars == <<headActors, movieNodes, headMovies, movie, movieTitle, nlines, line,
          pc, asked, out, errSeen, start, target, q, bfsCalls, dequeued>>

\* --------------------------------------------------------------- strings
WhiteSpace == {" ", "\n", "\t", "\r", "\f"}

\* Mutant: only the space character counts.
isspaceBlankOnly(c) == c = " "

isspace(c) == c \in WhiteSpace

\* line[strlen(line)-1] == '\n'  =>  line[strlen(line)-1] = '\0'
StripNewline(l) ==
  IF Len(l) > 0 /\ l[Len(l)] = "\n"
  THEN SubSeq(l, 1, Len(l) - 1)
  ELSE l

containsMovie(l) == \E index \in 1..Len(l) : l[index] = ":"

\* Position of the first ':' of a line that contains one.
FirstColon(l) ==
  CHOOSE i \in 1..Len(l) :
    l[i] = ":" /\ \A j \in 1..(i - 1) : l[j] /= ":"

\* movie += 2 after the scan stops on ':' leaves movie inside the copy of the
\* line (its terminator included): the ':' is not the last character.
TitleInRange(l) == FirstColon(l) + 2 <= Len(l) + 1

\* What strdup(movie) can return when movie points past the terminator: the
\* bytes that happen to follow the copy of the line, up to the first 0.
StrayTitles == { <<>>, <<"?">> }

\* movie += 2 after the scan stops on ':'; strdup of the rest.
findMovie(l) == SubSeq(l, FirstColon(l) + 2, Len(l))

\* ----------------------------------------------------------- graph store
ActorIds == 1..Len(headActors)

\* Position of the first node whose name matches, or NULL.
findActorIn(list, name) ==
  IF \E i \in 1..Len(list) : list[i].actorName = name
  THEN CHOOSE i \in 1..Len(list) :
         list[i].actorName = name
         /\ \A j \in 1..(i - 1) : list[j].actorName /= name
  ELSE NULL

findActor(name) == findActorIn(headActors, name)

\* Mutant: only the head of the list is compared.
isInLLHead(name) ==
  Len(headActors) > 0 /\ headActors[1].actorName = name

isInLL(name) == \E i \in 1..Len(headActors) : headActors[i].actorName = name

\* A freshly malloc'ed actorNode as parseFile fills it in.
NewActor(name) ==
  [actorName |-> name, movies |-> <<>>,
   visited |-> NewVisited, level |-> NewLevel]

addActorNode(list, node) == Append(list, node)

\* Mutant: the new node replaces the list instead of being appended to it.
addMovieToActorsMoviesHead(list, a, m) ==
  [list EXCEPT ![a].movies = <<m>>]

\* Appends without looking at what the list holds.
addMovieToActorsMovies(list, a, m) ==
  [list EXCEPT ![a].movies = Append(@, m)]

\* Mutant: the comparison is inverted, a different name ends the walk.
addActorToMovieInverted(list, cast, a) ==
  IF cast = <<>>
  THEN <<a>>
  ELSE IF \E i \in 1..(Len(cast) - 1) :
            list[cast[i]].actorName /= list[a].actorName
       THEN cast
       ELSE Append(cast, a)

\* The walk compares every node that has a successor, so the last node of
\* the cast is never compared.
addActorToMovie(list, cast, a) ==
  IF cast = <<>>
  THEN <<a>>
  ELSE IF \E i \in 1..(Len(cast) - 1) :
            list[cast[i]].actorName = list[a].actorName
       THEN cast
       ELSE Append(cast, a)

\* Mutant: the node is linked in at the head of the list.
addMovieToLLFront(list, m) == <<m>> \o list

addMovieToLL(list, m) == Append(list, m)

\* ------------------------------------------------------------- parseFile
Init ==
  /\ headActors = <<>>
  /\ movieNodes = <<>>
  /\ headMovies = <<>>
  /\ movie = NULL
  /\ movieTitle = <<>>
  /\ nlines = 0
  /\ line = <<>>
  /\ pc = "parse"
  /\ asked = <<>>
  /\ out = <<>>
  /\ errSeen = 0
  /\ start = NULL
  /\ target = NULL
  /\ q = <<>>
  /\ bfsCalls = 0
  /\ dequeued = <<>>

QueryVarsUnchanged ==
  UNCHANGED <<asked, out, errSeen, start, target, q, bfsCalls, dequeued>>

\* Loop body for a line that starts with white space: continue.
ParseBlank(raw) ==
  /\ isspace(raw[1])
  /\ nlines' = nlines + 1
  /\ line' = raw
  /\ UNCHANGED <<headActors, movieNodes, headMovies, movie, movieTitle, pc>>

\* Loop body for a line that contains ':'.
ParseHeader(raw) ==
  LET l == StripNewline(raw) IN
  /\ ~isspace(raw[1])
  /\ containsMovie(l)
  /\ line' = raw
  /\ nlines' = nlines + 1
  /\ headMovies' = IF movie /= NULL THEN addMovieToLL(headMovies, movie)
                                    ELSE headMovies
  /\ \/ /\ TitleInRange(l)
        /\ movieTitle' = <<findMovie(l)>>
        /\ movieNodes' = Append(movieNodes,
                                [movieName |-> findMovie(l), actors |-> <<>>])
        /\ movie' = Len(movieNodes) + 1
        /\ pc' = pc
     \/ \* findMovie hands strdup a pointer past the terminator of its copy
        \* of the line: undefined behaviour; the read runs over whatever
        \* bytes follow, or the process traps.
        /\ ~TitleInRange(l)
        /\ \E t \in StrayTitles :
             /\ movieTitle' = <<t>>
             /\ movieNodes' = Append(movieNodes,
                                     [movieName |-> t, actors |-> <<>>])
        /\ movie' = Len(movieNodes) + 1
        /\ pc' = pc
     \/ /\ ~TitleInRange(l)
        /\ pc' = "crashed"
        /\ UNCHANGED <<movieTitle, movieNodes, movie>>
  /\ UNCHANGED headActors

\* headActors after the find-or-create and addMovieToActorsMovies.
LinkedActors(name) ==
  IF isInLL(name)
  THEN addMovieToActorsMovies(headActors, findActor(name), movie)
  ELSE addMovieToActorsMovies(addActorNode(headActors, NewActor(name)),
                              Len(headActors) + 1, movie)

\* Loop body for any other line.
ParseActor(raw) ==
  LET l == StripNewline(raw)
      actor == IF isInLL(l) THEN findActor(l) ELSE Len(headActors) + 1
  IN
  /\ ~isspace(raw[1])
  /\ ~containsMovie(l)
  /\ headActors' = LinkedActors(l)
  /\ nlines' = nlines + 1
  /\ line' = raw
  /\ IF movie /= NULL
     THEN /\ movieNodes' =
               [movieNodes EXCEPT ![movie].actors =
                  addActorToMovie(headActors', @, actor)]
          /\ pc' = pc
     ELSE \* addActorToMovie reads movie->actors through a null pointer:
          \* undefined behaviour; the process traps or goes on in a state
          \* nothing is known about.
          /\ movieNodes' = movieNodes
          /\ pc' \in {"crashed", "undefined"}
  /\ UNCHANGED <<headMovies, movie, movieTitle>>

ParseLine ==
  /\ pc = "parse"
  /\ nlines < MaxLines
  /\ \E raw \in FileLines :
       ParseBlank(raw) \/ ParseHeader(raw) \/ ParseActor(raw)
  /\ QueryVarsUnchanged

RECURSIVE StringsOf(_)
\* The strings of n characters of HeaderAlphabet.
StringsOf(n) ==
  IF n = 0 THEN { <<>> }
  ELSE { Append(s, c) : s \in StringsOf(n - 1), c \in HeaderAlphabet }

\* Every movie header line of at most MaxHeaderLen characters, with and
\* without its newline.
HeaderLines ==
  { s \o e : s \in { h \in UNION { StringsOf(n) : n \in 1..MaxHeaderLen } :
                       containsMovie(h) /\ ~isspace(h[1]) },
             e \in { <<>>, <<"\n">> } }

\* The loop body of parseFile on a dataset of movie headers only.
ParseHeaderLine ==
  /\ pc = "parse"
  /\ nlines < MaxHeaders
  /\ \E raw \in HeaderLines : ParseHeader(raw)
  /\ QueryVarsUnchanged

\* getline() returns -1: register the pending movie and return to main.
ParseEOF ==
  /\ pc = "parse"
  /\ headMovies' = IF movieTitle /= <<>> THEN addMovieToLL(headMovies, movie)
                                         ELSE headMovies
  /\ movieTitle' = <<>>
  /\ line' = <<>>
  /\ pc' = "query"
  /\ UNCHANGED <<headActors, movieNodes, movie, nlines>>
  /\ QueryVarsUnchanged

\* ------------------------------------------------------------------- BFS
\* Mutant: the start actor is marked, the other actors are not cleared.
BFSResetStartOnly(list, s) ==
  [list EXCEPT ![s].visited = 1, ![s].level = 0]

\* Mutant: the clearing loop sets level to 0, the value parseFile gives.
BFSResetLevelZero(list, s) ==
  [i \in 1..Len(list) |->
     IF i = s THEN [list[i] EXCEPT !.visited = 1, !.level = 0]
              ELSE [list[i] EXCEPT !.visited = 0, !.level = 0]]

\* Mutant: the clearing loop also empties every membership list.
BFSResetDropMovies(list, s) ==
  [i \in 1..Len(list) |->
     IF i = s THEN [list[i] EXCEPT !.visited = 1, !.level = 0, !.movies = <<>>]
              ELSE [list[i] EXCEPT !.visited = 0, !.level = -1, !.movies = <<>>]]

\* The loop that clears visited and level, then marks the start actor.
BFSReset(list, s) ==
  [i \in 1..Len(list) |->
     IF i = s THEN [list[i] EXCEPT !.visited = 1, !.level = 0]
              ELSE [list[i] EXCEPT !.visited = 0, !.level = -1]]

\* Mutant: the reset comes before the test start == target.
BFSEnterResetFirst(list, s, t) == BFSReset(list, s)

\* The actor list as BFS leaves it before its while loop is entered.
BFSEnter(list, s, t) == IF s = t THEN list ELSE BFSReset(list, s)

RECURSIVE CastsOf(_)
\* The casts of a list of movies, one after the other.
CastsOf(ml) ==
  IF ml = <<>> THEN <<>>
  ELSE movieNodes[Head(ml)].actors \o CastsOf(Tail(ml))

\* Every co->to the two nested loops reach for actor a, in loop order.
CoStars(list, a) == CastsOf(list[a].movies)

\* Mutant: the level of the dequeued actor is copied, not incremented.
DiscoverSameLevel(list, c, a) ==
  [list EXCEPT ![c].visited = 1, ![c].level = list[a].level]

\* Mutant: the level is set, the visited flag is not.
DiscoverNoMark(list, c, a) ==
  [list EXCEPT ![c].level = list[a].level + 1]

\* What the co-star loop does to an unvisited c.
Discover(list, c, a) ==
  [list EXCEPT ![c].visited = 1, ![c].level = list[a].level + 1]

RECURSIVE VisitCoStars(_, _, _, _, _)
\* The nested loops over CoStars for the dequeued actor a: the actor list,
\* the queue and whether the target was reached (the early return).
VisitCoStars(list, queue, cs, a, t) ==
  IF cs = <<>>
  THEN [actors |-> list, q |-> queue, found |-> FALSE]
  ELSE LET c == Head(cs) IN
       IF list[c].visited = 0
       THEN IF c = t
            THEN [actors |-> Discover(list, c, a), q |-> queue, found |-> TRUE]
            ELSE VisitCoStars(Discover(list, c, a), Append(queue, c),
                              Tail(cs), a, t)
       ELSE VisitCoStars(list, queue, Tail(cs), a, t)

\* One iteration of while (q != NULL): dequeue, then the nested loops.
BFSIterate(list, queue, t) ==
  VisitCoStars(list, Tail(queue), CoStars(list, Head(queue)), Head(queue), t)

RECURSIVE BFSLoop(_, _, _)
\* The while loop run to its return value.
BFSLoop(list, queue, t) ==
  IF queue = <<>>
  THEN -1
  ELSE LET r == BFSIterate(list, queue, t) IN
       IF r.found THEN r.actors[t].level ELSE BFSLoop(r.actors, r.q, t)

\* The value BFS(s, t) returns when called with the actor list as given.
BFS(list, s, t) ==
  IF s = t THEN 0 ELSE BFSLoop(BFSEnter(list, s, t), <<s>>, t)

\* ------------------------------------------------------------------ main
\* printf("Score: %d\n", bfs)
ScoreLine(n) == [fd |-> "stdout", msg |-> "Score: %d", arg |-> n]

\* printf("Score: No Bacon!\n")
NoBaconLine == [fd |-> "stdout", msg |-> "Score: No Bacon!", arg |-> 0]

\* Mutant: an unresolved name is answered on stdout like a missing path.
NotFoundAsNoBacon == [fd |-> "stdout", msg |-> "Score: No Bacon!", arg |-> 0]

\* fprintf(stderr, "Actor Could Not be Found.\n")
NotFoundLine == [fd |-> "stderr", msg |-> "Actor Could Not be Found.", arg |-> 0]

\* Mutant: the return value is printed without the test for -1.
ReportNoCheck(bfs) == ScoreLine(bfs)

\* What main prints for the value BFS returned.
Report(bfs) == IF bfs = -1 THEN NoBaconLine ELSE ScoreLine(bfs)

\* Mutant: the anchor is looked up before the queried name.
QueryCaseAnchorFirst(actor, bacon) ==
  IF bacon = NULL THEN "nobacon"
  ELSE IF actor = NULL THEN "notfound"
  ELSE "bfs"

\* The branch main takes for the two lookups of a query.
QueryCase(actor, bacon) ==
  IF actor = NULL THEN "notfound"
  ELSE IF bacon = NULL THEN "nobacon"
  ELSE "bfs"

\* Mutant: a query that resolves clears the flag.
errSeenLast(case) == IF case = "notfound" THEN 1 ELSE 0

\* errSeen after a query that took the given branch.
errSeenAfter(case) == IF case = "notfound" THEN 1 ELSE errSeen

\* One iteration of main's loop up to the return of BFS or, when BFS has to
\* search, up to the entry of its while loop.
Query(anchor, raw) ==
  LET actorName == StripNewline(raw)
      actor == findActor(actorName)
      bacon == findActor(anchor)
  IN
  /\ pc = "query"
  /\ Len(asked) < MaxQueries
  /\ asked' = Append(asked, [anchor |-> anchor, name |-> actorName])
  /\ errSeen' = errSeenAfter(QueryCase(actor, bacon))
  /\ IF QueryCase(actor, bacon) = "notfound"
     THEN /\ out' = Append(out, NotFoundLine)
          /\ UNCHANGED <<headActors, pc, start, target, q, bfsCalls, dequeued>>
     ELSE IF QueryCase(actor, bacon) = "nobacon"
     THEN /\ out' = Append(out, NoBaconLine)
          /\ UNCHANGED <<headActors, pc, start, target, q, bfsCalls, dequeued>>
     ELSE /\ bfsCalls' = bfsCalls + 1
          /\ start' = bacon
          /\ target' = actor
          /\ dequeued' = <<>>
          /\ headActors' = BFSEnter(headActors, bacon, actor)
          /\ IF bacon = actor
             THEN /\ out' = Append(out, Report(0))
                  /\ UNCHANGED <<pc, q>>
             ELSE /\ q' = <<bacon>>
                  /\ pc' = "bfs"
                  /\ out' = out
  /\ UNCHANGED <<movieNodes, headMovies, movie, movieTitle, nlines, line>>

\* main as written: the anchor is the literal "Kevin Bacon".
QueryBacon == \E raw \in QueryLines : Query(KevinBacon, raw)

\* main with any of AnchorNames in the place of the literal, the same name for
\* every query of a run.
QueryAnchor ==
  \E anchor \in AnchorNames : \E raw \in QueryLines :
    /\ IF asked = <<>> THEN TRUE ELSE asked[1].anchor = anchor
    /\ Query(anchor, raw)

\* One iteration of BFS's while loop; on the early return main prints.
BFSStep ==
  LET r == BFSIterate(headActors, q, target) IN
  /\ pc = "bfs"
  /\ q /= <<>>
  /\ headActors' = r.actors
  /\ dequeued' = Append(dequeued, Head(q))
  /\ IF r.found
     THEN /\ q' = <<>>
          /\ out' = Append(out, Report(r.actors[target].level))
          /\ pc' = "query"
     ELSE /\ q' = r.q
          /\ UNCHANGED <<out, pc>>
  /\ UNCHANGED <<movieNodes, headMovies, movie, movieTitle, nlines, line,
                 asked, errSeen, start, target, bfsCalls>>

\* The while loop ends with the queue empty: return -1, main prints.
BFSNotFound ==
  /\ pc = "bfs"
  /\ q = <<>>
  /\ out' = Append(out, Report(-1))
  /\ pc' = "query"
  /\ UNCHANGED <<headActors, movieNodes, headMovies, movie, movieTitle,
                 nlines, line, asked, errSeen, start, target, q, bfsCalls,
                 dequeued>>

\* getline() on stdin returns -1: main leaves its loop and returns errSeen.
QueryEOF ==
  /\ pc = "query"
  /\ pc' = "done"
  /\ UNCHANGED <<headActors, movieNodes, headMovies, movie, movieTitle,
                 nlines, line, asked, out, errSeen, start, target, q,
                 bfsCalls, dequeued>>

Next ==
  \/ ParseLine
  \/ ParseEOF
  \/ QueryBacon
  \/ BFSStep
  \/ BFSNotFound
  \/ QueryEOF

Spec == Init /\ [][Next]_vars

NextAnchor ==
  \/ ParseLine
  \/ ParseEOF
  \/ QueryAnchor
  \/ BFSStep
  \/ BFSNotFound
  \/ QueryEOF

\* The program with the anchor of a run drawn from AnchorNames.
SpecAnchor == Init /\ [][NextAnchor]_vars

\* The loop body of parseFile on the next line of a dataset of the family.
ParseWideLine ==
  /\ pc = "parse"
  /\ nlines < MaxWideLines
  /\ \E raw \in WideLinesAt(nlines + 1) : ParseHeader(raw) \/ ParseActor(raw)
  /\ QueryVarsUnchanged

\* The first query of a run, for one of five names.
QueryWide ==
  /\ asked = <<>>
  /\ \E raw \in WideQueryLines : Query(KevinBacon, raw)

NextWide ==
  \/ ParseWideLine
  \/ ParseEOF
  \/ QueryWide
  \/ BFSStep
  \/ BFSNotFound
  \/ QueryEOF

\* One query against a dataset of up to five actors.
SpecWide == Init /\ [][NextWide]_vars

NextHeader ==
  \/ ParseHeaderLine
  \/ ParseEOF

\* parseFile on datasets of movie headers of every shape.
SpecHeader == Init /\ [][NextHeader]_vars

\* ------------------------------------------------- the graph, as a relation
Range(f) == { f[i] : i \in 1..Len(f) }

MovieIds == 1..Len(movieNodes)

\* Actor a and movie m are linked (membership list or cast list).
Linked(a, m) ==
  \/ m \in Range(headActors[a].movies)
  \/ a \in Range(movieNodes[m].actors)

\* Two actors share a movie.
Shares(a, b) == \E m \in MovieIds : Linked(a, m) /\ Linked(b, m)

RECURSIVE Ball(_, _)
\* The actors at most k shared-movie hops away from s.
Ball(s, k) ==
  IF k = 0 THEN {s}
  ELSE LET B == Ball(s, k - 1) IN
       B \cup { b \in ActorIds : \E a \in B : Shares(a, b) }

\* A chain of shared movies joins s and t.
Connected(s, t) == t \in Ball(s, Len(headActors))

\* The least number of shared-movie hops from s to t, -1 when there is none
\* (the balls grow with k, so the least k is the one whose predecessor fails).
Dist(s, t) ==
  IF Connected(s, t)
  THEN CHOOSE k \in 0..Len(headActors) :
         t \in Ball(s, k) /\ (k = 0 \/ t \notin Ball(s, k - 1))
  ELSE -1

\* The start and target actors of the i-th query, NULL when unresolved.
AnchorOf(i) == findActor(asked[i].anchor)
TargetOf(i) == findActor(asked[i].name)

\* out[i] is what main printed for asked[i].
Answered == 1..Len(out)

\* ------------------------------------------------------------------- C1
\* C1: for distinct anchor and target connected by a chain of shared movies,
\* the score main prints is the least number of shared-movie hops.
C1_ShortestDistance ==
  \A i \in Answered :
    LET s == AnchorOf(i)
        t == TargetOf(i)
    IN (s /= NULL /\ t /= NULL /\ s /= t /\ Connected(s, t))
         => out[i] = ScoreLine(Dist(s, t))

\* A query answered with a distance of two hops.
C1_Witness ==
  \E i \in Answered :
    /\ AnchorOf(i) /= NULL /\ TargetOf(i) /= NULL
    /\ Dist(AnchorOf(i), TargetOf(i)) = 2
    /\ out[i] = ScoreLine(2)

\* ------------------------------------------------------------------- C2
\* The i-th query resolved both actors and no chain of movies joins them.
Unconnected(i) ==
  /\ AnchorOf(i) /= NULL
  /\ TargetOf(i) /= NULL
  /\ ~Connected(AnchorOf(i), TargetOf(i))

\* C2: when anchor and target both exist and no chain of shared movies joins
\* them, main prints "Score: No Bacon!", and BFS returns to main only once
\* its queue is empty.
C2_Unreachable ==
  /\ [](\A i \in Answered : Unconnected(i) => out[i] = NoBaconLine)
  /\ [][(pc = "bfs" /\ pc' = "query" /\ ~Connected(start, target))
          => (q = <<>> /\ out' = Append(out, NoBaconLine))]_vars

\* A search that ran, emptied its queue and was answered "No Bacon!".
C2_Witness ==
  /\ pc = "query"
  /\ Len(out) > 0
  /\ Unconnected(Len(out))
  /\ out[Len(out)] = NoBaconLine
  /\ headActors[AnchorOf(Len(out))].visited = 1
  /\ headActors[TargetOf(Len(out))].level = -1

\* ------------------------------------------------------------------- C3
BaconAbsent == pc \in {"query", "bfs", "done"} /\ findActor(KevinBacon) = NULL

\* C3 as stated: with the anchor absent every query prints
\* "Score: No Bacon!", resolved or not, and BFS is never called.
C3_AllNoBacon ==
  BaconAbsent =>
    /\ bfsCalls = 0
    /\ \A i \in Answered : out[i] = NoBaconLine

\* C3 amended: with the anchor absent, every query whose name resolves prints
\* "Score: No Bacon!", every other query prints the resolution error, and BFS
\* is never called.
C3_NoBaconIfResolved ==
  BaconAbsent =>
    /\ bfsCalls = 0
    /\ pc /= "bfs"
    /\ \A i \in Answered :
         out[i] = IF TargetOf(i) = NULL THEN NotFoundLine ELSE NoBaconLine

\* The anchor is absent, one query resolved and one did not.
C3_Witness ==
  /\ BaconAbsent
  /\ \E i \in Answered : TargetOf(i) /= NULL /\ out[i] = NoBaconLine
  /\ \E i \in Answered : TargetOf(i) = NULL /\ out[i] = NotFoundLine

\* ------------------------------------------------------------------- C4
\* The actor list as ingestion left it: no search has touched it.
Fresh(list) ==
  [i \in 1..Len(list) |->
     [list[i] EXCEPT !.visited = NewVisited, !.level = NewLevel]]

\* What main prints for a query made right after ingestion.
FirstAnswer(anchor, name) ==
  LET s == findActor(anchor)
      t == findActor(name)
  IN IF t = NULL THEN NotFoundLine
     ELSE IF s = NULL THEN NoBaconLine
     ELSE Report(BFS(Fresh(headActors), s, t))

\* C4: the answer to a query does not depend on the queries before it: it is
\* the answer the same query gets right after ingestion, so the same name asked
\* twice is answered the same.
C4_QueryIndependence ==
  /\ \A i \in Answered : out[i] = FirstAnswer(asked[i].anchor, asked[i].name)
  /\ \A i, j \in Answered : asked[i] = asked[j] => out[i] = out[j]

\* The same target searched twice, the second time over the marks the first
\* search left.
C4_Witness ==
  /\ Len(out) = 2
  /\ asked[1] = asked[2]
  /\ out[1] = ScoreLine(2)
  /\ out[2] = ScoreLine(2)
  /\ bfsCalls = 2

\* ------------------------------------------------------------------- C5
\* C5: no cast list holds two actors of the same name.
C5_NoDuplicateInCast ==
  \A m \in MovieIds :
    \A i, j \in 1..Len(movieNodes[m].actors) :
      i /= j => headActors[movieNodes[m].actors[i]].actorName
                  /= headActors[movieNodes[m].actors[j]].actorName

\* ------------------------------------------------------------------- C6
\* C6: no membership list holds the same movie twice.
C6_NoDuplicateMembership ==
  \A a \in ActorIds :
    \A i, j \in 1..Len(headActors[a].movies) :
      i /= j => headActors[a].movies[i] /= headActors[a].movies[j]

\* ------------------------------------------------------------------- C7
\* C7: actor names are unique in the store; a line naming a known actor
\* leaves the number of actors unchanged, a line naming an unknown one adds
\* exactly one actor of that name.
C7_UniqueActorNames ==
  /\ [](\A a, b \in ActorIds :
          headActors[a].actorName = headActors[b].actorName => a = b)
  /\ [][(pc = "parse" /\ nlines' /= nlines)
          => \/ headActors' = headActors
             \/ /\ Len(headActors') = Len(headActors)
                /\ \A a \in ActorIds :
                     headActors'[a].actorName = headActors[a].actorName
             \/ /\ Len(headActors') = Len(headActors) + 1
                /\ ~isInLL(headActors'[Len(headActors')].actorName)]_vars

\* A known name was met again (its actor has two links) next to other actors.
C7_Witness ==
  /\ Len(headActors) = 3
  /\ \E a \in ActorIds : Len(headActors[a].movies) = 2

\* ------------------------------------------------------------------- C8
\* C8: an actor line before any movie header ends ingestion with an error and
\* never links the actor to a null movie.
C8_NoNullMovieLink ==
  /\ \A a \in ActorIds : NULL \notin Range(headActors[a].movies)
  /\ pc \notin {"crashed", "undefined"}

\* ------------------------------------------------------------------- C9
\* C9: where a path joins A and B, the search from A for B and the search
\* from B for A return the same distance.  Every answer is compared when it
\* is printed (it is then the last of out) with the value of the opposite
\* search.
C9_Symmetric ==
  (pc = "query" /\ Len(out) > 0) =>
    LET s == AnchorOf(Len(out))
        t == TargetOf(Len(out))
    IN (s /= NULL /\ t /= NULL /\ Connected(s, t))
         => out[Len(out)] = Report(BFS(headActors, t, s))

\* A two-hop search from an actor other than the anchor of main.
C9_Witness ==
  /\ pc = "query"
  /\ Len(out) > 0
  /\ asked[Len(out)].anchor /= KevinBacon
  /\ AnchorOf(Len(out)) /= NULL
  /\ TargetOf(Len(out)) /= NULL
  /\ out[Len(out)] = ScoreLine(2)
  /\ BFS(headActors, TargetOf(Len(out)), AnchorOf(Len(out))) = 2

\* ------------------------------------------------------------------ C10
\* The query main is about to read names the same actor as anchor and target.
SelfQuery ==
  /\ pc = "query"
  /\ asked' /= asked
  /\ findActor(asked'[Len(asked')].anchor) /= NULL
  /\ findActor(asked'[Len(asked')].anchor) = findActor(asked'[Len(asked')].name)

\* C10: BFS(A, A) returns 0 and changes no actor's visited flag or level and
\* enqueues nothing.
C10_SelfIsZero ==
  [][SelfQuery => /\ headActors' = headActors
                  /\ q' = q
                  /\ pc' = "query"
                  /\ out' = Append(out, ScoreLine(0))]_vars

\* BFS(A, A) was called after an earlier search had left its marks, which are
\* still there.
C10_Witness ==
  /\ Len(out) = 2
  /\ AnchorOf(2) /= NULL
  /\ AnchorOf(2) = TargetOf(2)
  /\ out[2] = ScoreLine(0)
  /\ \E a \in ActorIds : headActors[a].level = 2

\* ------------------------------------------------------------------ C11
\* C11: a name that does not resolve gets the resolution error on stderr and
\* no "Score:" line, a name that resolves gets a "Score:" line; every query
\* read has exactly one line of output, in the order of the stream (the one
\* being searched for has none yet), and after an unresolved name main is
\* back at the head of its loop, ready for the next name.
C11_UnresolvedContinues ==
  /\ [](/\ Len(out) = IF pc = "bfs" THEN Len(asked) - 1 ELSE Len(asked)
        /\ \A i \in Answered :
             IF TargetOf(i) = NULL
             THEN out[i] = NotFoundLine /\ out[i].fd = "stderr"
             ELSE out[i].fd = "stdout"
        /\ (pc = "query" /\ Len(asked) < MaxQueries) => ENABLED QueryBacon)
  /\ [][(pc = "query" /\ asked' /= asked
           /\ findActor(asked'[Len(asked')].name) = NULL)
          => (pc' = "query" /\ out' = Append(out, NotFoundLine))]_vars

\* An unresolved name was followed by a name that was searched for and found.
C11_Witness ==
  /\ Len(out) = 2
  /\ TargetOf(1) = NULL
  /\ out[1] = NotFoundLine
  /\ TargetOf(2) /= NULL
  /\ out[2] = ScoreLine(1)

\* ------------------------------------------------------------------ C12
NoRepeat(f) == \A i, j \in 1..Len(f) : f[i] = f[j] => i = j

\* Every actor that entered the queue in the current call, in order.
Enqueued == dequeued \o q

\* What is left to do in the current search: it is never negative.
Work ==
  2 * Cardinality({ a \in ActorIds : headActors[a].visited = 0 })
  + Len(q) + (IF pc = "bfs" THEN 1 ELSE 0)

\* C12: BFS terminates.  No actor enters the queue twice in one call, every
\* actor that entered it is marked visited, at most as many actors are
\* dequeued as the store holds, every step of the search is followed by
\* another one or by the return, every step lowers the work left, and the
\* queue is empty whenever BFS is not running.
C12_Terminates ==
  /\ [](/\ NoRepeat(Enqueued)
        /\ Len(dequeued) <= Len(headActors)
        /\ pc = "bfs" =>
             /\ \A i \in 1..Len(Enqueued) : headActors[Enqueued[i]].visited = 1
             /\ ENABLED BFSStep \/ ENABLED BFSNotFound
        /\ pc /= "bfs" => q = <<>>)
  /\ [][pc = "bfs" => Work' < Work]_vars

\* A search that dequeued two actors has returned, its queue freed.
C12_Witness ==
  /\ pc = "query"
  /\ Len(dequeued) = 2
  /\ q = <<>>
  /\ Len(out) > 0
  /\ out[Len(out)] = ScoreLine(2)

\* ------------------------------------------------------------------ C13
\* Some query read so far named no actor of the store.
SomeUnresolved == \E i \in 1..Len(asked) : TargetOf(i) = NULL

\* C13: main returns errSeen, which is 1 exactly when some query name did not
\* resolve ("Score: No Bacon!" answers leave it 0), and once set it stays set.
C13_ExitStatus ==
  /\ [](pc \in {"query", "bfs", "done"}
          => errSeen = IF SomeUnresolved THEN 1 ELSE 0)
  /\ [][errSeen = 1 => errSeen' = 1]_vars

\* main has returned 1: the first name did not resolve, the second did.
C13_Witness ==
  /\ pc = "done"
  /\ errSeen = 1
  /\ Len(asked) = 2
  /\ TargetOf(1) = NULL
  /\ TargetOf(2) /= NULL

\* ------------------------------------------------------------------ C14
\* The movies 1..n in the order of their headers.
InOrder(n) == [i \in 1..n |-> i]

\* The line read last is a movie header.
HeaderRead(l) ==
  Len(l) > 0 /\ l[1] \notin WhiteSpace /\ containsMovie(StripNewline(l))

\* C14: every header line allocates one movie; while lines are read the index
\* holds every movie but the current one, in header order, and at end of input
\* it holds every movie exactly once, in header order, so that no movie of a
\* membership list is missing from it.
C14_MovieIndex ==
  /\ [](/\ pc = "parse" =>
             headMovies = InOrder(IF movie = NULL THEN 0 ELSE movie - 1)
        /\ pc \in {"query", "bfs", "done"} =>
             /\ headMovies = InOrder(Len(movieNodes))
             /\ \A a \in ActorIds :
                  Range(headActors[a].movies) \subseteq Range(headMovies))
  /\ [][(pc = "parse" /\ nlines' /= nlines /\ pc' = "parse")
          => Len(movieNodes') =
               Len(movieNodes) + (IF HeaderRead(line') THEN 1 ELSE 0)]_vars

\* Ingestion is over: three headers, the second with an empty cast, the last
\* with a cast.
C14_Witness ==
  /\ pc = "query"
  /\ headMovies = <<1, 2, 3>>
  /\ movieNodes[2].actors = <<>>
  /\ movieNodes[3].actors /= <<>>

\* ------------------------------------------------------------------ C15
\* parseFile has just read a line, which is now in line'.
LineRead == pc = "parse" /\ nlines' /= nlines

\* C15: a line whose first character is white space changes neither the store
\* nor the current movie, and an actor line is attached to the current movie,
\* which it leaves in place.
C15_BlankSkipped ==
  /\ [][(LineRead /\ line'[1] \in WhiteSpace)
          => /\ UNCHANGED <<headActors, movieNodes, headMovies, movie,
                            movieTitle>>
             /\ pc' = "parse"]_vars
  /\ [][(LineRead /\ line'[1] \notin WhiteSpace /\ ~HeaderRead(line')
           /\ movie /= NULL)
          => /\ movie' = movie
             /\ findActorIn(headActors', StripNewline(line'))
                  \in Range(movieNodes'[movie].actors)]_vars

\* A blank line was read while a movie with a cast was the current one.
C15_Witness ==
  /\ pc = "parse"
  /\ line = <<"\n">>
  /\ movie /= NULL
  /\ movieNodes[movie].actors /= <<>>

\* ------------------------------------------------------------------ C16
\* C16: after every line of a dataset that starts with a movie header, an
\* actor is in a movie's cast exactly when the movie is in the actor's
\* membership list.
C16_Bidirectional ==
  pc \notin {"crashed", "undefined"} =>
    \A a \in ActorIds : \A m \in MovieIds :
      (m \in Range(headActors[a].movies)) <=> (a \in Range(movieNodes[m].actors))

\* An actor line was repeated under one header and the cast insertion was
\* suppressed: the actor is once in the cast, the movie twice in the
\* membership list.
C16_Witness ==
  \E a \in ActorIds :
    /\ headActors[a].movies = <<1, 1>>
    /\ Cardinality({ i \in 1..Len(movieNodes[1].actors) :
                       movieNodes[1].actors[i] = a }) = 1

\* ------------------------------------------------------------------ C17
\* The store without the search state: the actors in list order with their
\* names and membership lists, the movie index with titles and casts.
Store ==
  [actors |-> [i \in ActorIds |->
                 [actorName |-> headActors[i].actorName,
                  movies    |-> headActors[i].movies]],
   movieNodes |-> movieNodes,
   headMovies |-> headMovies,
   movieTitle |-> movieTitle]

\* C17: once ingestion has finished, no step of the query loop or of BFS
\* changes the set of actors, the movie index, a membership list or a cast;
\* only visited and level of actors change.
C17_StoreReadOnly ==
  [][(pc \in {"query", "bfs"}) => (Store' = Store)]_vars

\* Two queries are answered, one of them unresolved, the other by a search
\* that changed the search state: an actor was reset to level -1.
C17_Witness ==
  /\ pc = "query"
  /\ Len(out) = 2
  /\ errSeen = 1
  /\ bfsCalls = 1
  /\ \E a \in ActorIds : headActors[a].level = -1

\* ------------------------------------------------------------------ C18
\* The invariant of the search for an actor list and a queue: a visited
\* actor's level is its distance from the start, an unvisited actor's level
\* is -1, every queued actor is visited, the levels in the queue do not
\* decrease from front to back and the last is at most one above the first.
LoopInv(list, queue) ==
  /\ \A a \in 1..Len(list) :
       IF list[a].visited = 1 THEN list[a].level = Dist(start, a)
                              ELSE list[a].level = -1
  /\ \A i \in 1..Len(queue) : list[queue[i]].visited = 1
  /\ \A i, j \in 1..Len(queue) :
       i <= j => /\ list[queue[i]].level <= list[queue[j]].level
                 /\ list[queue[j]].level - list[queue[i]].level <= 1

\* The search after the dequeue of the current iteration and n passes of
\* its co-star loop.
AfterCoStars(n) ==
  VisitCoStars(headActors, Tail(q),
               SubSeq(CoStars(headActors, Head(q)), 1, n), Head(q), target)

\* C18: in a search with start /= target the loop invariant holds after the
\* reset, at the head of every iteration of the while loop and after every
\* pass of the co-star loop; when the target is reached, no actor's level is
\* above the level returned.
C18_LoopInvariant ==
  pc = "bfs" =>
    /\ LoopInv(headActors, q)
    /\ q /= <<>> =>
         \A n \in 0..Len(CoStars(headActors, Head(q))) :
           LET r == AfterCoStars(n) IN
           IF r.found
           THEN /\ LoopInv(r.actors, <<>>)
                /\ \A a \in ActorIds :
                     r.actors[a].level <= r.actors[target].level
           ELSE LoopInv(r.actors, r.q)

\* The queue holds an actor of level 1 in front of one of level 2.
C18_Witness ==
  /\ pc = "bfs"
  /\ Len(q) = 2
  /\ headActors[q[1]].level = 1
  /\ headActors[q[2]].level = 2

\* ------------------------------------------------------------------ C19
\* C19: from its creation until the first call of BFS an actor is unvisited
\* and its level is -1.
C19_DefaultSearchState ==
  (pc \in {"parse", "query", "done"} /\ bfsCalls = 0) =>
    \A a \in ActorIds :
      headActors[a].visited = 0 /\ headActors[a].level = -1

\* ------------------------------------------------------------------ C20
\* C20: a movie header whose ':' is its last character gives the movie an
\* empty title and ingestion goes on; title extraction reads nothing that
\* is not in the line.
C20_TitleWithinLine ==
  (HeaderRead(line) /\ ~TitleInRange(StripNewline(line))) =>
    /\ pc = "parse"
    /\ movieTitle = << <<>> >>
    /\ movieNodes[movie].movieName = <<>>

====
